---- MODULE Spec2Model ----
(***************************************************************************)
(* Model of src/index.js: an Express server that turns base64-encoded HTML *)
(* into Google Docs / Sheets / Slides artifacts.                           *)
(*                                                                         *)
(* Text is a sequence of one-character strings.  A parsed document body is *)
(* a sequence of elements [tagName, childNodes]; a child node is           *)
(* [nodeName, textContent] where nodeName "#text" is a text node and any   *)
(* other nodeName is a child element.                                      *)
(***************************************************************************)
EXTENDS Integers, Sequences, FiniteSets, TLC

\* ------------------------------------------------------------------ bounds
\* longest document body (top-level blocks) given to the segmenters alone
MaxBlocks == 4
\* most child nodes of a freely generated paragraph
MaxParts == 2

\* most requests in flight at once
NumReqs == 2
\* longest decoded HTML string (code points) posted to /upload-doc
MaxHtmlLen == 2
\* longest document body posted to the slide endpoints
MaxReqBlocks == 3

\* the segmenters called on their own
VARIABLES segFn, segDoc, segOut, segPc

\* the server: per request its body (req), the await it is suspended at (pc),
\* its response (res), the external calls it has issued (calls), its local
\* variables (loc) and the error its try block caught (thrown); the files of
\* the server's directory (fs); the objects held by the Google services
\* (remote); the file operations performed so far, in order (fileLog)
VARIABLES req, pc, res, calls, loc, thrown, fs, remote, fileLog

segVars == <<segFn, segDoc, segOut, segPc>>

srvVars == <<req, pc, res, calls, loc, thrown, fs, remote, fileLog>>

vars == <<segFn, segDoc, segOut, segPc, req, pc, res, calls, loc, thrown, fs, remote, fileLog>>

Reqs == 1..NumReqs

\* ------------------------------------------------------------------ text
\* the characters the regular expression class \s matches (those in use here)
IsSpace(c) == c \in {" ", "\n", "\t"}

RECURSIVE TrimStart(_)
TrimStart(t) == IF t = <<>> THEN <<>> ELSE IF IsSpace(Head(t)) THEN TrimStart(Tail(t)) ELSE t

RECURSIVE TrimEnd(_)
TrimEnd(t) == IF t = <<>> THEN <<>> ELSE IF IsSpace(t[Len(t)]) THEN TrimEnd(SubSeq(t, 1, Len(t) - 1)) ELSE t

\* String.prototype.trim
Trim(t) == TrimEnd(TrimStart(t))

\* .replace(/\s+/g, " "): every maximal run of whitespace becomes one space
RECURSIVE CollapseWs(_)
CollapseWs(t) == IF t = <<>> THEN <<>> ELSE IF IsSpace(Head(t)) THEN <<" ">> \o CollapseWs(TrimStart(Tail(t))) ELSE <<Head(t)>> \o CollapseWs(Tail(t))

\* .replace(/\s+/g, " ").trim()
Normalize(t) == Trim(CollapseWs(t))

\* Array.prototype.join
RECURSIVE Join(_, _)
Join(parts, sep) == IF parts = <<>> THEN <<>> ELSE IF Len(parts) = 1 THEN parts[1] ELSE parts[1] \o sep \o Join(Tail(parts), sep)

\* ------------------------------------------------------------------ DOM
\* Node.textContent of an element: the concatenation of its descendants' text
RECURSIVE ConcatText(_)
ConcatText(nodes) == IF nodes = <<>> THEN <<>> ELSE Head(nodes).textContent \o ConcatText(Tail(nodes))

textContent(el) == ConcatText(el.childNodes)

NoNode == [nodeName |-> "null", textContent |-> <<>>]

\* p.querySelector("strong"): the first strong descendant, or null
RECURSIVE querySelectorStrong(_)
querySelectorStrong(nodes) == IF nodes = <<>> THEN NoNode ELSE IF Head(nodes).nodeName = "STRONG" THEN Head(nodes) ELSE querySelectorStrong(Tail(nodes))

\* ------------------------------------------- extractSlidesFromHtml (18-62)
\* (variant: any paragraph that contains a bold run is a title)
isStrongOnlyTitleLoose(p) == querySelectorStrong(p.childNodes) # NoNode

isStrongOnlyTitle(p) ==
  LET strong == querySelectorStrong(p.childNodes)
  IN IF strong = NoNode THEN FALSE
     ELSE Normalize(textContent(p)) = Normalize(strong.textContent)

\* lastSlide is a reference into slides: the index of the slide, 0 for null
ScanInit == [slides |-> <<>>, lastSlide |-> 0, buffer |-> <<>>]

SetDescription(slides, k, d) == [slides EXCEPT ![k].description = d]

\* one iteration of the for loop over document.body.children
ScanStep(st, el) ==
  IF el.tagName = "P" /\ isStrongOnlyTitle(el)
  THEN LET closed == IF st.lastSlide # 0
                     THEN SetDescription(st.slides, st.lastSlide, Trim(Join(st.buffer, <<"\n", "\n">>)))
                     ELSE st.slides
           opened == Append(closed, [title |-> Trim(textContent(el)), description |-> <<>>])
       IN [slides |-> opened, lastSlide |-> Len(opened), buffer |-> <<>>]
  ELSE LET text == Normalize(textContent(el))
       IN IF text # <<>> THEN [st EXCEPT !.buffer = Append(st.buffer, text)] ELSE st

RECURSIVE ScanFrom(_, _, _)
ScanFrom(children, i, st) == IF i > Len(children) THEN st ELSE ScanFrom(children, i + 1, ScanStep(st, children[i]))

\* (variant: the buffered text after the last title is forgotten)
ScanNoFlush(st) == st.slides

\* the trailing flush after the loop
ScanFlush(st) ==
  IF st.lastSlide # 0 /\ Len(st.buffer) # 0
  THEN SetDescription(st.slides, st.lastSlide, Trim(Join(st.buffer, <<"\n", "\n">>)))
  ELSE st.slides

\* slides.filter(s => s.title && typeof s.description === "string")
KeepSlide(s) == s.title # <<>>

extractSlidesFromHtml(children) == SelectSeq(ScanFlush(ScanFrom(children, 1, ScanInit)), KeepSlide)

\* ------------------------------- extractSlidesFromHtml_SlideShow (64-90)
IsElement(n) == n.nodeName # "#text"

\* (variant: the loop does not stop at the next h2)
RECURSIVE CollectDescriptionToEnd(_, _)
CollectDescriptionToEnd(sibs, i) == IF i > Len(sibs) THEN <<>> ELSE sibs[i].textContent \o <<"\n">> \o CollectDescriptionToEnd(sibs, i + 1)

\* the while loop over nextElementSibling, over one sibling list of elements
RECURSIVE CollectDescription(_, _)
CollectDescription(sibs, i) == IF i > Len(sibs) \/ sibs[i].nodeName = "H2" THEN <<>> ELSE sibs[i].textContent \o <<"\n">> \o CollectDescription(sibs, i + 1)

\* a top-level element seen as a node of the body's sibling list
AsNode(el) == [nodeName |-> el.tagName, textContent |-> textContent(el)]

BodyNodes(children) == [i \in 1..Len(children) |-> AsNode(children[i])]

\* the element children of an element, in order (text nodes are not elements)
ElementChildren(el) == SelectSeq(el.childNodes, IsElement)

\* the callback of h2Elements.forEach, for the h2 at position i of sibling list sibs
SlideOfH2(sibs, i) == [title |-> Trim(sibs[i].textContent), description |-> Trim(CollectDescription(sibs, i + 1))]

\* the slides of the h2 elements found in one sibling list, in order
RECURSIVE SlidesOfSiblings(_, _)
SlidesOfSiblings(sibs, i) == IF i > Len(sibs) THEN <<>> ELSE (IF sibs[i].nodeName = "H2" THEN <<SlideOfH2(sibs, i)>> ELSE <<>>) \o SlidesOfSiblings(sibs, i + 1)

\* document.querySelectorAll("h2") visits elements in document order: a
\* top-level element first, then the elements it contains
RECURSIVE SlidesInOrder(_, _)
SlidesInOrder(children, i) ==
  IF i > Len(children) THEN <<>>
  ELSE (IF children[i].tagName = "H2" THEN <<SlideOfH2(BodyNodes(children), i)>> ELSE <<>>)
       \o SlidesOfSiblings(ElementChildren(children[i]), 1)
       \o SlidesInOrder(children, i + 1)

extractSlidesFromHtml_SlideShow(children) == SlidesInOrder(children, 1)

\* ------------------------------------------------------------ input documents
Txt(t) == [nodeName |-> "#text", textContent |-> t]

Strong(t) == [nodeName |-> "STRONG", textContent |-> t]

El(tag, nodes) == [tagName |-> tag, childNodes |-> nodes]

pTitleA == El("P", <<Strong(<<"T", "i", "t", "l", "e", " ", "A">>)>>)

pTitleB == El("P", <<Strong(<<"T", "i", "t", "l", "e", " ", "B">>)>>)

pText1 == El("P", <<Txt(<<"t", "e", "x", "t", "1">>)>>)

pText2 == El("P", <<Txt(<<"t", "e", "x", "t", "2">>)>>)

\* bold and plain text in the same line
pMixed == El("P", <<Strong(<<"A">>), Txt(<<" ", "b">>)>>)

\* a bold-only paragraph whose bold run is empty
pEmptyStrong == El("P", <<Strong(<<>>)>>)

\* a bold-only paragraph with whitespace around and inside the bold run
pSpaced == El("P", <<Txt(<<"\n">>), Strong(<<"A", " ", " ", "B">>), Txt(<<" ">>)>>)

\* a paragraph of whitespace only
pBlank == El("P", <<Txt(<<" ", "\n">>)>>)

\* a bold-only block that is not a paragraph
divStrong == El("DIV", <<Strong(<<"A">>)>>)

\* the blocks the title-delimited segmenter is run on
StrongBlocks == {pTitleA, pTitleB, pText1, pMixed, pEmptyStrong, pSpaced, pBlank}

h2A == El("H2", <<Txt(<<"A">>)>>)

h2B == El("H2", <<Txt(<<"B">>)>>)

\* a heading with whitespace around its text and a bold run inside
h2Spaced == El("H2", <<Txt(<<" ">>), Strong(<<"C">>), Txt(<<"\n">>)>>)

pX == El("P", <<Txt(<<"x">>)>>)

pY == El("P", <<Txt(<<"y">>)>>)

pZ == El("P", <<Txt(<<"z">>)>>)

\* a paragraph that keeps an inner line break and outer spaces
pLines == El("P", <<Txt(<<" ", "u", "\n", "v", " ">>)>>)

\* a container holding a heading, a bare text node and a paragraph
divNested == El("DIV", <<[nodeName |-> "H2", textContent |-> <<"D">>], Txt(<<"t">>), [nodeName |-> "P", textContent |-> <<"w">>]>>)

\* the blocks the heading-delimited segmenter is run on
HeadingBlocks == {h2A, h2B, h2Spaced, pX, pY, pLines, divNested}

\* freely generated paragraphs have up to MaxParts child nodes
FreeTexts == {<<>>, <<" ">>, <<"A">>, <<"A", " ">>, <<"B">>}

FreeNodes == [nodeName : {"#text", "STRONG", "EM"}, textContent : FreeTexts]

\* the example of the title-delimited segmenter
TitleExample == <<pTitleA, pText1, pTitleB, pText2>>

\* bodies with a bold-only block that is no paragraph
DivDocs == {<<divStrong, pText2>>, <<pTitleA, divStrong, pText2>>}

\* the example of the heading-delimited segmenter: [h2 A, p x, h2 B, p y, p z]
HeadingExample == <<h2A, pX, h2B, pY, pZ>>

\* the bodies extractSlidesFromHtml is called on: the bodies of up to
\* MaxBlocks blocks, the example, the bodies above, and bodies around a
\* freely generated paragraph
IsStrongDoc(d) ==
  \/ \E k \in 0..MaxBlocks : d \in [1..k -> StrongBlocks]
  \/ d \in {TitleExample} \cup DivDocs
  \/ \E k \in 0..MaxParts : \E ns \in [1..k -> FreeNodes] : d \in {<<pTitleA, El("P", ns), pText1>>, <<El("P", ns), pText1>>}

\* the bodies extractSlidesFromHtml_SlideShow is called on
IsHeadingDoc(d) ==
  \/ \E k \in 0..MaxBlocks : d \in [1..k -> HeadingBlocks]
  \/ d = HeadingExample

\* ------------------------------------------------ the segmenters on their own
\* no request has arrived
SrvIdle ==
  /\ req = [r \in Reqs |-> <<>>]
  /\ pc = [r \in Reqs |-> "absent"]
  /\ res = [r \in Reqs |-> <<>>]
  /\ calls = [r \in Reqs |-> <<>>]
  /\ loc = [r \in Reqs |-> <<>>]
  /\ thrown = [r \in Reqs |-> ""]
  /\ fs = {}
  /\ remote = {}
  /\ fileLog = <<>>

SegInit ==
  /\ SrvIdle
  /\ segPc = "called"
  /\ segOut = <<>>
  /\ \/ segFn = "extractSlidesFromHtml" /\ IsStrongDoc(segDoc)
     \/ segFn = "extractSlidesFromHtml_SlideShow" /\ IsHeadingDoc(segDoc)

RunExtract ==
  /\ segPc = "called"
  /\ segPc' = "returned"
  /\ segFn = "extractSlidesFromHtml"
  /\ segOut' = extractSlidesFromHtml(segDoc)
  /\ UNCHANGED <<segFn, segDoc>>
  /\ UNCHANGED srvVars

RunExtractSlideShow ==
  /\ segPc = "called"
  /\ segPc' = "returned"
  /\ segFn = "extractSlidesFromHtml_SlideShow"
  /\ segOut' = extractSlidesFromHtml_SlideShow(segDoc)
  /\ UNCHANGED <<segFn, segDoc>>
  /\ UNCHANGED srvVars

SegNext == RunExtract \/ RunExtractSlideShow

SpecSeg == SegInit /\ [][SegNext]_vars

\* ------------------------------------------------------------------ server
\* JavaScript values of the request body's fields
Undefined == [type |-> "undefined", value |-> <<>>]

Str(v) == [type |-> "string", value |-> v]

\* a value that is truthy and no string (a JSON number)
Num == [type |-> "number", value |-> <<>>]

\* !x is false
Truthy(v) == v.type = "number" \/ (v.type = "string" /\ v.value # <<>>)

\* Buffer.from(html_base64, "base64") throws for a value that is no string;
\* what a string decodes to is carried by the request as q.html
Decodable(q) == q.html_base64.type = "string"

DecodeError == "The first argument must be of type string"

\* catch (error) { res.status(500).json({ error: error.message }) }
CatchResponse(err) == [status |-> 500, body |-> [error |-> err]]

\* (variant: the catch block deletes what the request created)
CatchCallsCleanup(r) == IF \E o \in remote : o.id = r THEN <<[api |-> "drive.files.delete", args |-> [fileId |-> r]]>> ELSE <<>>

\* the external calls a catch block issues: none
CatchCalls(r) == <<>>

\* the try block of request r ends in its catch block with error err
Caught(r, err) ==
  /\ res' = [res EXCEPT ![r] = CatchResponse(err)]
  /\ thrown' = [thrown EXCEPT ![r] = err]
  /\ calls' = [calls EXCEPT ![r] = calls[r] \o CatchCalls(r)]
  /\ pc' = [pc EXCEPT ![r] = "responded"]

\* return res.status(400).json({ error: msg })
Reply400(r, msg) ==
  /\ res' = [res EXCEPT ![r] = [status |-> 400, body |-> [error |-> msg]]]
  /\ pc' = [pc EXCEPT ![r] = "responded"]

\* res.json({ url })
ReplyUrl(r, kind, id) ==
  /\ res' = [res EXCEPT ![r] = [status |-> 200, body |-> [url |-> <<kind, id>>]]]
  /\ pc' = [pc EXCEPT ![r] = "responded"]

\* slidesApi / sheets / docs / drive method called with args
Issue(r, api, args) == calls' = [calls EXCEPT ![r] = Append(calls[r], [api |-> api, args |-> args])]

\* !access_token || !html_base64 (sheet and slide endpoints)
MissingFields(q) == ~Truthy(q.access_token) \/ ~Truthy(q.html_base64)

\* ---------------------------------------------------- POST /upload-doc (94-174)
\* (variant: the lower end of the Hebrew range is one too high)
InScriptRangeOffByOne(c) == (c >= 1425 /\ c <= 1535) \/ (c >= 1536 /\ c <= 1791)

\* the character class [\u0590-\u05FF\u0600-\u06FF]
InScriptRange(c) == (c >= 1424 /\ c <= 1535) \/ (c >= 1536 /\ c <= 1791)

isArabic(html) == \E i \in 1..Len(html) : InScriptRange(html[i])

\* htmlToDocx(html): a DOCX rendering of the HTML
htmlToDocx(html) == [docx |-> html]

\* (variant: every request stages its DOCX at a path of its own)
tempPathPerRequest(r) == <<"temp.docx", r>>

\* path.join(__dirname, "temp.docx"), as evaluated by request r
tempPath(r) == "temp.docx"

FileExists(path) == \E f \in fs : f.path = path

FileContent(path) == (CHOOSE f \in fs : f.path = path).content

\* fs.writeFileSync(path, data)
WriteFile(path, data) == {f \in fs : f.path # path} \cup {[path |-> path, content |-> data]}

\* fs.unlinkSync(path), of a file that exists
Unlink(path) == {f \in fs : f.path # path}

\* (variant: file_name is not checked, as in the other endpoints)
MissingUploadFieldsNoName(q) == ~Truthy(q.html_base64) \/ ~Truthy(q.access_token)

\* !html_base64 || !access_token || !file_name
MissingUploadFields(q) == ~Truthy(q.html_base64) \/ ~Truthy(q.access_token) \/ ~Truthy(q.file_name)

UploadDocPost(r) ==
  /\ pc[r] = "received"
  /\ req[r].endpoint = "/upload-doc"
  /\ IF MissingUploadFields(req[r])
     THEN /\ Reply400(r, "Missing required fields.")
          /\ UNCHANGED <<calls, loc, thrown>>
     ELSE IF ~Decodable(req[r])
     THEN /\ Caught(r, DecodeError)
          /\ UNCHANGED loc
     ELSE /\ loc' = [loc EXCEPT ![r] = [html |-> req[r].html.text, isArabic |-> isArabic(req[r].html.text), docxBuffer |-> htmlToDocx(req[r].html.text), stream |-> [state |-> "none", content |-> <<>>], documentId |-> <<>>, endIndex |-> 0]]
          /\ pc' = [pc EXCEPT ![r] = "htmlToDocx"]
          /\ UNCHANGED <<res, calls, thrown>>
  /\ UNCHANGED <<req, fs, remote, fileLog>>
  /\ UNCHANGED segVars

\* htmlToDocx resolved: the DOCX is written to the temp file and the upload,
\* whose body is a read stream on that file, is started
UploadDocConverted(r) ==
  /\ pc[r] = "htmlToDocx"
  /\ fs' = WriteFile(tempPath(r), loc[r].docxBuffer)
  /\ fileLog' = Append(fileLog, [op |-> "write", by |-> r, path |-> tempPath(r), ok |-> TRUE])
  /\ Issue(r, "drive.files.create", [name |-> req[r].file_name.value, body |-> tempPath(r)])
  /\ loc' = [loc EXCEPT ![r].stream = [state |-> "open", content |-> <<>>]]
  /\ pc' = [pc EXCEPT ![r] = "drive.files.create"]
  /\ UNCHANGED <<req, res, thrown, remote>>
  /\ UNCHANGED segVars

\* the read stream of the pending upload reads the temp file, or finds none
UploadDocStreamRead(r) ==
  /\ pc[r] = "drive.files.create"
  /\ loc[r].stream.state = "open"
  /\ LET path == tempPath(r)
     IN /\ loc' = [loc EXCEPT ![r].stream = IF FileExists(path) THEN [state |-> "read", content |-> FileContent(path)] ELSE [state |-> "ENOENT", content |-> <<>>]]
        /\ fileLog' = Append(fileLog, [op |-> "read", by |-> r, path |-> path, ok |-> FileExists(path)])
  /\ UNCHANGED <<req, pc, res, calls, thrown, fs, remote>>
  /\ UNCHANGED segVars

\* the end index of the body of the document Drive makes of an uploaded DOCX:
\* one position per character, after the leading section break, and the
\* closing newline
EndIndexOf(content) == Len(content.docx) + 2

\* drive.files.create resolved: the temp file is unlinked and the document read
UploadDocUploaded(r) ==
  /\ pc[r] = "drive.files.create"
  /\ loc[r].stream.state = "read"
  /\ remote' = remote \cup {[kind |-> "document", id |-> r, content |-> loc[r].stream.content, endIndex |-> EndIndexOf(loc[r].stream.content)]}
  /\ fileLog' = Append(fileLog, [op |-> "unlink", by |-> r, path |-> tempPath(r), ok |-> FileExists(tempPath(r))])
  /\ IF ~FileExists(tempPath(r))
     THEN /\ Caught(r, "ENOENT: no such file or directory, unlink")
          /\ UNCHANGED <<fs, loc>>
     ELSE /\ fs' = Unlink(tempPath(r))
          /\ loc' = [loc EXCEPT ![r].documentId = r]
          /\ Issue(r, "docs.documents.get", [documentId |-> r])
          /\ pc' = [pc EXCEPT ![r] = "docs.documents.get"]
          /\ UNCHANGED <<res, thrown>>
  /\ UNCHANGED req
  /\ UNCHANGED segVars

\* the end index read from the created document
ReadEndIndex(id) == (CHOOSE d \in remote : d.kind = "document" /\ d.id = id).endIndex

\* endIndex of the style update: the one documents.get returned
StyleEndIndex(r) == ReadEndIndex(loc[r].documentId)

\* docs.documents.get resolved: the style update is sent
UploadDocGot(r) ==
  /\ pc[r] = "docs.documents.get"
  /\ loc' = [loc EXCEPT ![r].endIndex = StyleEndIndex(r)]
  /\ Issue(r, "docs.documents.batchUpdate", [documentId |-> loc[r].documentId, requests |-> <<[updateParagraphStyle |-> [startIndex |-> 1, endIndex |-> StyleEndIndex(r), direction |-> IF loc[r].isArabic THEN "RIGHT_TO_LEFT" ELSE "LEFT_TO_RIGHT", fields |-> "direction"]]>>])
  /\ pc' = [pc EXCEPT ![r] = "docs.documents.batchUpdate"]
  /\ UNCHANGED <<req, res, thrown, fs, remote, fileLog>>
  /\ UNCHANGED segVars

\* docs.documents.batchUpdate resolved: the document link is returned
UploadDocStyled(r) ==
  /\ pc[r] = "docs.documents.batchUpdate"
  /\ ReplyUrl(r, "document", loc[r].documentId)
  /\ UNCHANGED <<req, calls, loc, thrown, fs, remote, fileLog>>
  /\ UNCHANGED segVars

\* ------------------------------------------- POST /create-styled-sheet (176-274)
\* selectAll("td, th", row).map(cell => textContent(cell).trim()) for every row
CellValues(rows) == [i \in 1..Len(rows) |-> [j \in 1..Len(rows[i]) |-> Trim(rows[i][j])]]

headerStyle == [repeatCell |-> [startRowIndex |-> 0, endRowIndex |-> 1, fill |-> "header", fontSize |-> 12, bold |-> TRUE]]

\* values.slice(1).map((_, i) => ...), i counted from 0
bodyStyles(values) == [k \in 1..(Len(values) - 1) |-> [repeatCell |-> [startRowIndex |-> k, endRowIndex |-> k + 1, fill |-> IF (k - 1) % 2 = 0 THEN "white" ELSE "shade", fontSize |-> 11, bold |-> FALSE]]]

\* const { title = "Styled Sheet" } = req.body
SheetTitle(q) == IF q.title.type = "undefined" THEN <<"Styled Sheet">> ELSE q.title.value

\* selectAll("tr", undefined), when the HTML holds no table, is left to the
\* selector library: it either throws or selects nothing
SheetPost(r) ==
  /\ pc[r] = "received"
  /\ req[r].endpoint = "/create-styled-sheet"
  /\ IF MissingFields(req[r])
     THEN /\ Reply400(r, "Missing 'access_token' or 'html_base64'")
          /\ UNCHANGED <<calls, loc, thrown>>
     ELSE IF ~Decodable(req[r])
     THEN /\ Caught(r, DecodeError)
          /\ UNCHANGED loc
     ELSE \/ /\ ~req[r].html.table
             /\ Caught(r, "Cannot read properties of undefined")
             /\ UNCHANGED loc
          \/ /\ loc' = [loc EXCEPT ![r] = [values |-> IF req[r].html.table THEN CellValues(req[r].html.rows) ELSE <<>>, spreadsheetId |-> <<>>]]
             /\ Issue(r, "sheets.spreadsheets.create", [title |-> SheetTitle(req[r])])
             /\ pc' = [pc EXCEPT ![r] = "sheets.spreadsheets.create"]
             /\ UNCHANGED <<res, thrown>>
  /\ UNCHANGED <<req, fs, remote, fileLog>>
  /\ UNCHANGED segVars

SheetCreated(r) ==
  /\ pc[r] = "sheets.spreadsheets.create"
  /\ remote' = remote \cup {[kind |-> "spreadsheet", id |-> r]}
  /\ loc' = [loc EXCEPT ![r].spreadsheetId = r]
  /\ Issue(r, "sheets.spreadsheets.values.update", [spreadsheetId |-> r, range |-> "Sheet1!A1", values |-> loc[r].values])
  /\ pc' = [pc EXCEPT ![r] = "sheets.spreadsheets.values.update"]
  /\ UNCHANGED <<req, res, thrown, fs, fileLog>>
  /\ UNCHANGED segVars

SheetValuesUpdated(r) ==
  /\ pc[r] = "sheets.spreadsheets.values.update"
  /\ Issue(r, "sheets.spreadsheets.batchUpdate", [spreadsheetId |-> loc[r].spreadsheetId, requests |-> <<headerStyle>> \o bodyStyles(loc[r].values)])
  /\ pc' = [pc EXCEPT ![r] = "sheets.spreadsheets.batchUpdate"]
  /\ UNCHANGED <<req, res, loc, thrown, fs, remote, fileLog>>
  /\ UNCHANGED segVars

SheetStyled(r) ==
  /\ pc[r] = "sheets.spreadsheets.batchUpdate"
  /\ ReplyUrl(r, "spreadsheets", loc[r].spreadsheetId)
  /\ UNCHANGED <<req, calls, loc, thrown, fs, remote, fileLog>>
  /\ UNCHANGED segVars

\* --------------- POST /create-slides (376-575), /create-slides-show (577-776)
DigitChar(d) == <<"0", "1", "2", "3", "4", "5", "6", "7", "8", "9">>[d + 1]

\* the decimal text of a number in a template literal
RECURSIVE Digits(_)
Digits(n) == IF n < 10 THEN <<DigitChar(n)>> ELSE Digits(n \div 10) \o <<DigitChar(n % 10)>>

\* (variant: the ordinal is left out of the identifier)
slideIdFixed(index) == <<"s", "l", "i", "d", "e", "_", "1">>

\* `slide_${index + 1}`, index counted from 0
slideId(index) == <<"s", "l", "i", "d", "e", "_">> \o Digits(index + 1)

Box(w, h, x, y) == [width |-> w, height |-> h, translateX |-> x, translateY |-> y]

Cmd(kind, objectId, pageObjectId, text, box) == [kind |-> kind, objectId |-> objectId, pageObjectId |-> pageObjectId, text |-> text, box |-> box]

NoBox == Box(0, 0, 0, 0)

\* (variant: the title text is inserted before its text box is created)
SlideCommandsTextFirst(slide, index, descY) ==
  LET id == slideId(index)
  IN << Cmd("createSlide", id, <<>>, <<>>, NoBox),
        Cmd("insertText", <<"t", "i", "t", "l", "e", "_">> \o id, <<>>, slide.title, NoBox),
        Cmd("createShape", <<"t", "i", "t", "l", "e", "_">> \o id, id, <<>>, Box(600, 50, 60, 50)) >>

\* the body of slidesData.forEach: the eleven commands pushed for one slide;
\* descY is the description box's translateY (70 or 100)
SlideCommands(slide, index, descY) ==
  LET id == slideId(index)
  IN << Cmd("createSlide", id, <<>>, <<>>, NoBox),
        Cmd("createImage", <<"b", "g", "_">> \o id, id, <<>>, Box(720, 405, 0, 0)),
        Cmd("createImage", <<"l", "o", "g", "o", "_">> \o id, id, <<>>, Box(40, 40, 10, 340)),
        Cmd("createShape", <<"f", "o", "o", "t", "e", "r", "_">> \o id, id, <<>>, Box(200, 20, 540, 370)),
        Cmd("insertText", <<"f", "o", "o", "t", "e", "r", "_">> \o id, <<>>, <<"HelpMeTeach.AI">>, NoBox),
        Cmd("createShape", <<"t", "i", "t", "l", "e", "_">> \o id, id, <<>>, Box(600, 50, 60, 50)),
        Cmd("insertText", <<"t", "i", "t", "l", "e", "_">> \o id, <<>>, slide.title, NoBox),
        Cmd("updateTextStyle", <<"t", "i", "t", "l", "e", "_">> \o id, <<>>, <<>>, NoBox),
        Cmd("createShape", <<"d", "e", "s", "c", "_">> \o id, id, <<>>, Box(600, 80, 60, descY)),
        Cmd("insertText", <<"d", "e", "s", "c", "_">> \o id, <<>>, slide.description, NoBox),
        Cmd("updateTextStyle", <<"d", "e", "s", "c", "_">> \o id, <<>>, <<>>, NoBox) >>

\* slideRequests after slidesData.forEach
RECURSIVE slideRequestsFrom(_, _, _)
slideRequestsFrom(slidesData, index, descY) == IF index >= Len(slidesData) THEN <<>> ELSE SlideCommands(slidesData[index + 1], index, descY) \o slideRequestsFrom(slidesData, index + 1, descY)

SlideEndpoints == {"/create-slides", "/create-slides-show"}

DescriptionY(endpoint) == IF endpoint = "/create-slides" THEN 70 ELSE 100

\* (variant: both endpoints use the heading-delimited segmenter)
SegmenterOfShared(endpoint, body) == extractSlidesFromHtml_SlideShow(body)

\* the segmenter each endpoint calls on the decoded HTML
SegmenterOf(endpoint, body) == IF endpoint = "/create-slides" THEN extractSlidesFromHtml(body) ELSE extractSlidesFromHtml_SlideShow(body)

\* file_name && file_name.trim() ? file_name : "My Presentation"
presentationTitle(q) == IF Truthy(q.file_name) /\ q.file_name.type = "string" /\ Trim(q.file_name.value) # <<>> THEN q.file_name.value ELSE <<"My Presentation">>

SlidesPost(r) ==
  /\ pc[r] = "received"
  /\ req[r].endpoint \in SlideEndpoints
  /\ IF MissingFields(req[r])
     THEN /\ Reply400(r, "Missing 'access_token' or 'html_base64'")
          /\ UNCHANGED <<calls, loc, thrown>>
     ELSE IF ~Decodable(req[r])
     THEN /\ Caught(r, DecodeError)
          /\ UNCHANGED loc
     ELSE IF Len(SegmenterOf(req[r].endpoint, req[r].html.body)) = 0
     THEN /\ Reply400(r, "No valid slides found in HTML.")
          /\ UNCHANGED <<calls, loc, thrown>>
     ELSE /\ loc' = [loc EXCEPT ![r] = [slidesData |-> SegmenterOf(req[r].endpoint, req[r].html.body), presentationId |-> <<>>, defaultSlideId |-> <<>>]]
          /\ Issue(r, "slides.presentations.create", [title |-> presentationTitle(req[r])])
          /\ pc' = [pc EXCEPT ![r] = "slides.presentations.create"]
          /\ UNCHANGED <<res, thrown>>
  /\ UNCHANGED <<req, fs, remote, fileLog>>
  /\ UNCHANGED segVars

SlidesCreated(r) ==
  /\ pc[r] = "slides.presentations.create"
  /\ remote' = remote \cup {[kind |-> "presentation", id |-> r]}
  /\ loc' = [loc EXCEPT ![r].presentationId = r]
  /\ Issue(r, "slides.presentations.get", [presentationId |-> r])
  /\ pc' = [pc EXCEPT ![r] = "slides.presentations.get"]
  /\ UNCHANGED <<req, res, thrown, fs, fileLog>>
  /\ UNCHANGED segVars

\* (variant: the deletion of the default slide is not awaited; the populating
\* batch is sent along with it)
SlidesGotUnawaited(r) ==
  /\ pc[r] = "slides.presentations.get"
  /\ loc' = [loc EXCEPT ![r].defaultSlideId = <<"p">>]
  /\ calls' = [calls EXCEPT ![r] = calls[r] \o << [api |-> "slides.presentations.batchUpdate", args |-> [presentationId |-> loc[r].presentationId, requests |-> <<Cmd("deleteObject", <<"p">>, <<>>, <<>>, NoBox)>>]],
                                                  [api |-> "slides.presentations.batchUpdate", args |-> [presentationId |-> loc[r].presentationId, requests |-> slideRequestsFrom(loc[r].slidesData, 0, DescriptionY(req[r].endpoint))]] >>]
  /\ pc' = [pc EXCEPT ![r] = "slides.presentations.batchUpdate"]
  /\ UNCHANGED <<req, res, thrown, fs, remote, fileLog>>
  /\ UNCHANGED segVars

\* defaultSlide.data.slides[0].objectId: the identifier the service gave the
\* slide a new presentation starts with
SlidesGot(r) ==
  /\ pc[r] = "slides.presentations.get"
  /\ loc' = [loc EXCEPT ![r].defaultSlideId = <<"p">>]
  /\ Issue(r, "slides.presentations.batchUpdate", [presentationId |-> loc[r].presentationId, requests |-> <<Cmd("deleteObject", <<"p">>, <<>>, <<>>, NoBox)>>])
  /\ pc' = [pc EXCEPT ![r] = "slides.presentations.batchUpdate (delete default)"]
  /\ UNCHANGED <<req, res, thrown, fs, remote, fileLog>>
  /\ UNCHANGED segVars

SlidesDefaultDeleted(r) ==
  /\ pc[r] = "slides.presentations.batchUpdate (delete default)"
  /\ Issue(r, "slides.presentations.batchUpdate", [presentationId |-> loc[r].presentationId, requests |-> slideRequestsFrom(loc[r].slidesData, 0, DescriptionY(req[r].endpoint))])
  /\ pc' = [pc EXCEPT ![r] = "slides.presentations.batchUpdate"]
  /\ UNCHANGED <<req, res, loc, thrown, fs, remote, fileLog>>
  /\ UNCHANGED segVars

SlidesPopulated(r) ==
  /\ pc[r] = "slides.presentations.batchUpdate"
  /\ ReplyUrl(r, "presentation", loc[r].presentationId)
  /\ UNCHANGED <<req, calls, loc, thrown, fs, remote, fileLog>>
  /\ UNCHANGED segVars

\* the promise request r awaits rejects, and its catch block answers
Awaiting == {"htmlToDocx", "drive.files.create", "docs.documents.get", "docs.documents.batchUpdate", "sheets.spreadsheets.create", "sheets.spreadsheets.values.update", "sheets.spreadsheets.batchUpdate", "slides.presentations.create", "slides.presentations.get", "slides.presentations.batchUpdate (delete default)", "slides.presentations.batchUpdate"}

Rejected(r) ==
  /\ pc[r] \in Awaiting
  /\ Caught(r, pc[r])
  /\ UNCHANGED <<req, loc, fs, remote, fileLog>>
  /\ UNCHANGED segVars

\* ------------------------------------------------------------ request bodies
B64 == Str(<<"b64">>)

Token == Str(<<"tok">>)

\* code points at the edges of the two script ranges, and a Latin letter
CodePoints == {65, 1423, 1424, 1535, 1536, 1791, 1792}

ReqBlocks == {pTitleA, pText1, pEmptyStrong, h2A, pX, divNested}

\* a decoded HTML document, as the handlers look at it: its code points
\* (/upload-doc), the children of its parsed body (slide endpoints), whether it
\* holds a table and the cell texts of the rows of its first table (sheet)
Html(text, body, table, rows) == [text |-> text, body |-> body, table |-> table, rows |-> rows]

NoHtml == Html(<<>>, <<>>, FALSE, <<>>)

Tables == {Html(<<>>, <<>>, FALSE, <<>>), Html(<<>>, <<>>, TRUE, <<>>), Html(<<>>, <<>>, TRUE, << <<<<" ", "h">>, <<"k">>>>, <<<<"1">>>>, <<<<"2">>, <<>>>> >>)}

Endpoints == {"/upload-doc", "/create-styled-sheet", "/create-slides", "/create-slides-show"}

Request(endpoint, b64, token, name, title, html) == [endpoint |-> endpoint, html_base64 |-> b64, access_token |-> token, file_name |-> name, title |-> title, html |-> html]

Absent == Request("", Undefined, Undefined, Undefined, Undefined, NoHtml)

\* request q has arrived, alone
Arrived(q) == req = [r \in Reqs |-> IF r = 1 THEN q ELSE Absent]

\* one request of any shape has arrived: each field absent, empty or present;
\* when html_base64 is a string it decodes, by endpoint, to up to MaxHtmlLen
\* code points, to a table, or to a body of up to MaxReqBlocks blocks
OneRequest ==
  \E e \in Endpoints : \E t \in {Undefined, Str(<<>>), Token} : \E n \in {Undefined, Str(<<>>), Str(<<" ">>), Str(<<"n">>)} :
    \/ \E b \in {Undefined, Str(<<>>), Num} : Arrived(Request(e, b, t, n, Undefined, NoHtml))
    \/ /\ e = "/upload-doc"
       /\ \E k \in 0..MaxHtmlLen : \E text \in [1..k -> CodePoints] : Arrived(Request(e, B64, t, n, Undefined, Html(text, <<>>, FALSE, <<>>)))
    \/ /\ e = "/create-styled-sheet"
       /\ \E ti \in {Undefined, Str(<<"t">>)} : \E h \in Tables : Arrived(Request(e, B64, t, n, ti, h))
    \/ /\ e \in {"/create-slides", "/create-slides-show"}
       /\ \E k \in 0..MaxReqBlocks : \E body \in [1..k -> ReqBlocks] : Arrived(Request(e, B64, t, n, Undefined, Html(<<>>, body, FALSE, <<>>)))

\* well-formed /upload-doc requests served together, each with a payload of
\* its own: a Hebrew letter for the first, Latin text of different lengths
\* for the others
ConcurrentUpload(r) == Request("/upload-doc", B64, Token, Str(<<"n">>), Undefined, Html(IF r = 1 THEN <<1488>> ELSE [k \in 1..r |-> 64 + r], <<>>, FALSE, <<>>))

\* the requests have arrived and none has been handled: either one request of
\* any shape, or NumReqs uploads in flight together
Init ==
  /\ \/ OneRequest
     \/ req = [r \in Reqs |-> ConcurrentUpload(r)]
  /\ pc = [r \in Reqs |-> IF req[r] = Absent THEN "absent" ELSE "received"]
  /\ res = [r \in Reqs |-> [status |-> 0, body |-> <<>>]]
  /\ calls = [r \in Reqs |-> <<>>]
  /\ loc = [r \in Reqs |-> <<>>]
  /\ thrown = [r \in Reqs |-> ""]
  /\ fs = {}
  /\ remote = {}
  /\ fileLog = <<>>
  /\ segFn = "" /\ segDoc = <<>> /\ segOut = <<>> /\ segPc = "idle"

Next ==
  \E r \in Reqs :
    \/ UploadDocPost(r)
    \/ UploadDocConverted(r)
    \/ UploadDocStreamRead(r)
    \/ UploadDocUploaded(r)
    \/ UploadDocGot(r)
    \/ UploadDocStyled(r)
    \/ SheetPost(r)
    \/ SheetCreated(r)
    \/ SheetValuesUpdated(r)
    \/ SheetStyled(r)
    \/ SlidesPost(r)
    \/ SlidesCreated(r)
    \/ SlidesGot(r)
    \/ SlidesDefaultDeleted(r)
    \/ SlidesPopulated(r)
    \/ Rejected(r)

Spec == Init /\ [][Next]_vars

\* ------------------------------------------------------------------ claims
\* what the claims say, stated without the loops of the code
Indices(doc) == [i \in 1..Len(doc) |-> i]

IsBoundary(doc, i) == doc[i].tagName = "P" /\ isStrongOnlyTitle(doc[i])

HasTitle(doc, i) == IsBoundary(doc, i) /\ Normalize(textContent(doc[i])) # <<>>

\* the title boundaries with a non-empty title, in document order
TitledBoundaries(doc) == SelectSeq(Indices(doc), LAMBDA i : HasTitle(doc, i))

\* the first boundary after position i, or one past the end
NextBoundary(doc, i) ==
  LET later == {j \in (i + 1)..Len(doc) : IsBoundary(doc, j)}
  IN IF later = {} THEN Len(doc) + 1 ELSE CHOOSE j \in later : \A k \in later : j <= k

\* the positions whose text belongs to the slide opened at boundary i
ContentOf(doc, i) == SelectSeq(Indices(doc), LAMBDA k : k > i /\ k < NextBoundary(doc, i) /\ Normalize(textContent(doc[k])) # <<>>)

ExpectedDescription(doc, i) == Join([j \in 1..Len(ContentOf(doc, i)) |-> Normalize(textContent(doc[ContentOf(doc, i)[j]]))], <<"\n", "\n">>)

TitleExampleSlides ==
  << [title |-> <<"T", "i", "t", "l", "e", " ", "A">>, description |-> <<"t", "e", "x", "t", "1">>],
     [title |-> <<"T", "i", "t", "l", "e", " ", "B">>, description |-> <<"t", "e", "x", "t", "2">>] >>

ExtractReturned == segPc = "returned" /\ segFn = "extractSlidesFromHtml"

\* C5: extractSlidesFromHtml returns one slide per title boundary with a
\* non-empty title, in document order; a slide's description is made of exactly
\* the non-empty normalized texts of the blocks between its boundary and the
\* next boundary (or the end), in order; blocks before the first boundary go to
\* no slide; [Title A, text1, Title B, text2] gives [{Title A, text1}, {Title B, text2}].
C5_TitleSegmentation ==
  ExtractReturned =>
    LET titled == TitledBoundaries(segDoc)
    IN /\ Len(segOut) = Len(titled)
       /\ \A k \in 1..Len(titled) :
            /\ Normalize(segOut[k].title) = Normalize(textContent(segDoc[titled[k]]))
            /\ segOut[k].description = ExpectedDescription(segDoc, titled[k])
       /\ segDoc = TitleExample => segOut = TitleExampleSlides

\* a run of the example, with content before the first title somewhere else
C5_Witness == ExtractReturned /\ segDoc = TitleExample /\ segOut = TitleExampleSlides

\* a paragraph with a bold run and non-whitespace text outside bold runs
MixedParagraph(p) ==
  /\ p.tagName = "P"
  /\ \E a \in 1..Len(p.childNodes) : p.childNodes[a].nodeName = "STRONG"
  /\ \E b \in 1..Len(p.childNodes) : p.childNodes[b].nodeName # "STRONG" /\ Trim(p.childNodes[b].textContent) # <<>>

\* the same paragraph as one run of plain text
PlainCopy(p) == El("P", <<Txt(textContent(p))>>)

\* the last boundary before position i, 0 when there is none
CurrentBoundary(doc, i) ==
  LET earlier == {j \in 1..(i - 1) : IsBoundary(doc, j)}
  IN IF earlier = {} THEN 0 ELSE CHOOSE j \in earlier : \A k \in earlier : k <= j

\* the number of slides returned for the boundaries up to position j
RankOf(doc, j) == Cardinality({k \in 1..j : HasTitle(doc, k)})

\* the texts a description is joined from
RECURSIVE SplitParts(_)
SplitParts(d) ==
  IF d = <<>> THEN <<>>
  ELSE LET cut == {n \in 1..(Len(d) - 1) : d[n] = "\n" /\ d[n + 1] = "\n"}
       IN IF cut = {} THEN <<d>>
          ELSE LET n == CHOOSE m \in cut : \A o \in cut : m <= o
               IN <<SubSeq(d, 1, n - 1)>> \o SplitParts(SubSeq(d, n + 2, Len(d)))

\* C6: a top-level paragraph holding both a bold run and non-whitespace plain
\* text is never a title boundary: the result is the one obtained with the same
\* text in a plain paragraph (it opens no slide), and its text is one of the
\* parts of the description of the slide that is current at that point.
C6_MixedIsContent ==
  ExtractReturned =>
    \A i \in 1..Len(segDoc) :
      MixedParagraph(segDoc[i]) =>
        /\ ~isStrongOnlyTitle(segDoc[i])
        /\ segOut = extractSlidesFromHtml([segDoc EXCEPT ![i] = PlainCopy(segDoc[i])])
        /\ LET j == CurrentBoundary(segDoc, i)
           IN (j # 0 /\ HasTitle(segDoc, j)) =>
                \E n \in 1..Len(SplitParts(segOut[RankOf(segDoc, j)].description)) :
                  SplitParts(segOut[RankOf(segDoc, j)].description)[n] = Normalize(textContent(segDoc[i]))

C6_Witness ==
  /\ ExtractReturned
  /\ Len(segDoc) = 3 /\ segDoc[1] = pTitleA /\ MixedParagraph(segDoc[2])
  /\ Len(segOut) = 1
  /\ segOut[1].description = Normalize(textContent(segDoc[2])) \o <<"\n", "\n">> \o <<"t", "e", "x", "t", "1">>

\* C11: every slide extractSlidesFromHtml returns has as its title the
\* normalized (whitespace-collapsed and trimmed) text of its title-boundary
\* paragraph, the text that was compared when the paragraph was classified.
C11_TitleIsNormalized ==
  ExtractReturned =>
    LET titled == TitledBoundaries(segDoc)
    IN /\ Len(segOut) = Len(titled)
       /\ \A k \in 1..Len(titled) : segOut[k].title = Normalize(textContent(segDoc[titled[k]]))

\* the first title boundary with a title, or one past the end
FirstTitle(doc) == IF TitledBoundaries(doc) = <<>> THEN Len(doc) + 1 ELSE TitledBoundaries(doc)[1]

\* the non-boundary blocks with text after the first title, in document order
ContentAfterFirstTitle(doc) == SelectSeq(Indices(doc), LAMBDA k : k > FirstTitle(doc) /\ ~IsBoundary(doc, k) /\ Normalize(textContent(doc[k])) # <<>>)

\* the texts the descriptions of a slide list are joined from, in order
RECURSIVE AllParts(_)
AllParts(slides) == IF slides = <<>> THEN <<>> ELSE SplitParts(Head(slides).description) \o AllParts(Tail(slides))

\* C13: for every body, each top-level non-boundary block with non-empty
\* normalized text after the first title boundary has its text in the
\* description of exactly one returned slide: the texts the returned
\* descriptions are made of are, in order, the texts of exactly those blocks,
\* also when some title-boundary paragraph has an empty title.
C13_NothingLostAfterFirstTitle ==
  ExtractReturned =>
    LET content == ContentAfterFirstTitle(segDoc)
    IN AllParts(segOut) = [n \in 1..Len(content) |-> Normalize(textContent(segDoc[content[n]]))]

\* the h2 elements of the document, as <<block, child>> places: child 0 is the
\* top-level block itself, child m its m-th element child
H2Places(doc) ==
  {<<i, 0>> : i \in {n \in 1..Len(doc) : doc[n].tagName = "H2"}}
  \cup UNION {{<<i, m>> : m \in {n \in 1..Len(ElementChildren(doc[i])) : ElementChildren(doc[i])[n].nodeName = "H2"}} : i \in 1..Len(doc)}

\* document order of places
Before(a, b) == a[1] < b[1] \/ (a[1] = b[1] /\ a[2] < b[2])

PlaceRank(doc, a) == 1 + Cardinality({b \in H2Places(doc) : Before(b, a)})

\* the sibling list a place lives in, and its position there
SiblingsOf(doc, a) == IF a[2] = 0 THEN BodyNodes(doc) ELSE ElementChildren(doc[a[1]])

PositionOf(a) == IF a[2] = 0 THEN a[1] ELSE a[2]

\* the siblings after position i and before the next h2 sibling
FollowingUntilH2(sibs, i) ==
  LET h2s == {j \in (i + 1)..Len(sibs) : sibs[j].nodeName = "H2"}
      stop == IF h2s = {} THEN Len(sibs) + 1 ELSE CHOOSE j \in h2s : \A k \in h2s : j <= k
  IN SubSeq(sibs, i + 1, stop - 1)

LineOf(n) == [nodeName |-> n.nodeName, textContent |-> n.textContent \o <<"\n">>]

HeadingExampleSlides ==
  << [title |-> <<"A">>, description |-> <<"x">>],
     [title |-> <<"B">>, description |-> <<"y", "\n", "z">>] >>

SlideShowReturned == segPc = "returned" /\ segFn = "extractSlidesFromHtml_SlideShow"

\* C7: extractSlidesFromHtml_SlideShow returns exactly one slide per h2 element,
\* in document order; its title is the trimmed heading text and its description
\* the trimmed concatenation of (text content + line break) of every following
\* sibling element up to the next h2 sibling or the end of the sibling list;
\* [h2 A, p x, h2 B, p y, p z] gives [{A, x}, {B, y<line break>z}].
C7_HeadingSegmentation ==
  SlideShowReturned =>
    /\ Len(segOut) = Cardinality(H2Places(segDoc))
    /\ \A a \in H2Places(segDoc) :
         LET sibs == SiblingsOf(segDoc, a)
             following == FollowingUntilH2(sibs, PositionOf(a))
         IN /\ segOut[PlaceRank(segDoc, a)].title = Trim(sibs[PositionOf(a)].textContent)
            /\ segOut[PlaceRank(segDoc, a)].description = Trim(ConcatText([k \in 1..Len(following) |-> LineOf(following[k])]))
    /\ segDoc = HeadingExample => segOut = HeadingExampleSlides

C7_Witness == SlideShowReturned /\ segDoc = HeadingExample /\ segOut = HeadingExampleSlides

\* ----------------------------------------------------------- server claims
Handled(r) == pc[r] \notin {"absent", "received"}

\* the fields an endpoint requires
RequiredFields(endpoint) == IF endpoint = "/upload-doc" THEN {"html_base64", "access_token", "file_name"} ELSE {"access_token", "html_base64"}

FieldOf(q, f) == IF f = "html_base64" THEN q.html_base64 ELSE IF f = "access_token" THEN q.access_token ELSE q.file_name

LacksRequired(q) == \E f \in RequiredFields(q.endpoint) : FieldOf(q, f).type = "undefined"

FileOpsBy(r) == {k \in 1..Len(fileLog) : fileLog[k].by = r}

\* C1: a request that lacks a required field of its endpoint is answered 400
\* and makes no external call and no temp-file write, at any point.
C1_MissingFieldIs400 ==
  \A r \in Reqs :
    (pc[r] # "absent" /\ LacksRequired(req[r])) =>
      /\ calls[r] = <<>>
      /\ FileOpsBy(r) = {}
      /\ \A o \in remote : o.id # r
      /\ Handled(r) => (pc[r] = "responded" /\ res[r].status = 400)

\* /upload-doc with only file_name missing has been answered 400
C1_Witness ==
  \E r \in Reqs :
    /\ req[r].endpoint = "/upload-doc"
    /\ Truthy(req[r].html_base64) /\ Truthy(req[r].access_token) /\ req[r].file_name = Undefined
    /\ res[r].status = 400

WellFormed(q) == q.html_base64.type = "string" /\ Truthy(q.html_base64) /\ Truthy(q.access_token)

NoSlides400(r) == res[r].status = 400 /\ res[r].body.error = "No valid slides found in HTML." /\ calls[r] = <<>>

\* C2 as stated: for a document with no h2 element, both slide endpoints
\* answer 400 "No valid slides found in HTML." and never create a presentation.
C2_Original ==
  \A r \in Reqs :
    (Handled(r) /\ req[r].endpoint \in SlideEndpoints /\ WellFormed(req[r]) /\ H2Places(req[r].html.body) = {}) => NoSlides400(r)

\* C2, amended: for a document with no h2 element the heading-delimited
\* segmenter returns no slide and /create-slides-show answers 400 "No valid
\* slides found in HTML." without creating a presentation; /create-slides
\* answers so exactly when the title-delimited segmenter finds no bold-only
\* title paragraph with a non-empty title, and otherwise goes on to create one.
C2_EmptySlideListIs400 ==
  \A r \in Reqs :
    (Handled(r) /\ req[r].endpoint \in SlideEndpoints /\ WellFormed(req[r])) =>
      /\ H2Places(req[r].html.body) = {} => extractSlidesFromHtml_SlideShow(req[r].html.body) = <<>>
      /\ (req[r].endpoint = "/create-slides-show" /\ H2Places(req[r].html.body) = {}) => NoSlides400(r)
      /\ req[r].endpoint = "/create-slides" => (NoSlides400(r) <=> TitledBoundaries(req[r].html.body) = <<>>)
      /\ (req[r].endpoint = "/create-slides" /\ TitledBoundaries(req[r].html.body) # <<>>) => (Len(calls[r]) >= 1 /\ calls[r][1].api = "slides.presentations.create")

\* /create-slides-show was sent a non-empty body without h2 and answered 400
C2_Witness ==
  \E r \in Reqs :
    /\ req[r].endpoint = "/create-slides-show" /\ WellFormed(req[r])
    /\ H2Places(req[r].html.body) = {} /\ TitledBoundaries(req[r].html.body) # <<>>
    /\ NoSlides400(r)

\* the requests that have issued the batch that populates the presentation
Populating(r) == req[r].endpoint \in SlideEndpoints /\ Len(calls[r]) = 4

slideRequests(r) == calls[r][4].args.requests

\* the identifier a command refers to and does not create, <<>> for none
ReferenceOf(c) ==
  IF c.kind \in {"createImage", "createShape"} THEN c.pageObjectId
  ELSE IF c.kind \in {"insertText", "updateTextStyle"} THEN c.objectId
  ELSE <<>>

Creates(c) == c.kind \in {"createSlide", "createImage", "createShape"}

\* C3: in the command list of a slide endpoint, a command that refers to a
\* slide or a shape comes after the createSlide/createShape that creates it.
C3_DependencyOrder ==
  \A r \in Reqs :
    Populating(r) =>
      \A j \in 1..Len(slideRequests(r)) :
        ReferenceOf(slideRequests(r)[j]) # <<>> =>
          \E i \in 1..(j - 1) :
            /\ slideRequests(r)[i].kind \in {"createSlide", "createShape"}
            /\ slideRequests(r)[i].objectId = ReferenceOf(slideRequests(r)[j])

\* /create-slides-show has sent the commands of two slides
C3_Witness ==
  \E r \in Reqs :
    /\ Populating(r) /\ req[r].endpoint = "/create-slides-show"
    /\ Len(loc[r].slidesData) = 2 /\ Len(slideRequests(r)) = 22

\* t occurs in s as a contiguous run
Contains(s, t) == \E k \in 0..(Len(s) - Len(t)) : SubSeq(s, k + 1, k + Len(t)) = t

\* the ordinal of the slide a command belongs to
OrdinalOf(r, c) == CHOOSE i \in 1..Len(loc[r].slidesData) : (IF c.kind = "createSlide" THEN c.objectId ELSE c.pageObjectId) = <<"s", "l", "i", "d", "e", "_">> \o Digits(i)

\* C4: for N slides the command list holds exactly N createSlide commands,
\* slide_1..slide_N in order; every identifier created for slide i contains
\* the ordinal i; the identifiers created by the batch are pairwise distinct.
C4_IdentifiersByOrdinal ==
  \A r \in Reqs :
    Populating(r) =>
      LET cmds == slideRequests(r)
          n == Len(loc[r].slidesData)
          slidesMade == SelectSeq(cmds, LAMBDA c : c.kind = "createSlide")
          made == {j \in 1..Len(cmds) : Creates(cmds[j])}
      IN /\ Len(slidesMade) = n
         /\ \A i \in 1..n : slidesMade[i].objectId = <<"s", "l", "i", "d", "e", "_">> \o Digits(i)
         /\ \A j \in made : cmds[j].kind # "createSlide" =>
              /\ \E i \in 1..n : cmds[j].pageObjectId = <<"s", "l", "i", "d", "e", "_">> \o Digits(i)
              /\ Contains(cmds[j].objectId, Digits(OrdinalOf(r, cmds[j])))
         /\ \A j \in made : \A k \in made : j # k => cmds[j].objectId # cmds[k].objectId
         /\ Cardinality(made) = 6 * n

\* /create-slides has sent the commands of three slides
C4_Witness ==
  \E r \in Reqs :
    /\ Populating(r) /\ req[r].endpoint = "/create-slides"
    /\ Len(loc[r].slidesData) = 3
    /\ Cardinality({slideRequests(r)[j].objectId : j \in {k \in 1..Len(slideRequests(r)) : Creates(slideRequests(r)[k])}}) = 18

\* the code points U+0590..U+05FF and U+0600..U+06FF
HebrewOrArabic == (1424..1535) \cup (1536..1791)

\* the /upload-doc requests whose style update has been sent
Styling(r) == req[r].endpoint = "/upload-doc" /\ Len(calls[r]) = 3

\* C8: the direction sent by /upload-doc is RIGHT_TO_LEFT if and only if the
\* decoded HTML holds a code point in U+0590..U+05FF or U+0600..U+06FF, else
\* LEFT_TO_RIGHT; it is one style update, whose range ends at the end index
\* read from the document after the upload completed and before the update.
C8_DirectionAndRange ==
  \A r \in Reqs :
    Styling(r) =>
      LET update == calls[r][3].args.requests
          html == req[r].html.text
      IN /\ <<calls[r][1].api, calls[r][2].api, calls[r][3].api>> = <<"drive.files.create", "docs.documents.get", "docs.documents.batchUpdate">>
         /\ Len(update) = 1
         /\ update[1].updateParagraphStyle.direction = (IF \E i \in 1..Len(html) : html[i] \in HebrewOrArabic THEN "RIGHT_TO_LEFT" ELSE "LEFT_TO_RIGHT")
         /\ \E d \in remote :
              /\ d.kind = "document" /\ d.id = calls[r][2].args.documentId
              /\ calls[r][3].args.documentId = d.id
              /\ update[1].updateParagraphStyle.endIndex = d.endIndex
              /\ update[1].updateParagraphStyle.startIndex = 1

\* the only character of the HTML is U+0590 and the update says right-to-left,
\* over the range 1..3
C8_Witness ==
  \E r \in Reqs :
    /\ Styling(r) /\ req[r].html.text = <<1424>>
    /\ calls[r][3].args.requests[1].updateParagraphStyle.direction = "RIGHT_TO_LEFT"
    /\ calls[r][3].args.requests[1].updateParagraphStyle.endIndex = 3

\* the last write or unlink of the temp file before position k of the log
LastChangeBefore(k) ==
  LET earlier == {j \in 1..(k - 1) : fileLog[j].op \in {"write", "unlink"} /\ fileLog[j].ok}
  IN IF earlier = {} THEN 0 ELSE CHOOSE j \in earlier : \A i \in earlier : i <= j

UnlinkError == "ENOENT: no such file or directory, unlink"

\* C9: all /upload-doc requests stage at one path, so (a) a request whose
\* stream reads the file after another request wrote it uploads that other
\* request's DOCX, and (b) a request whose file was unlinked by another before
\* its stream read it, or before its own unlink, finds no file.
C9_SharedTempFileRace ==
  \A k \in 1..Len(fileLog) :
    LET e == fileLog[k]
        j == LastChangeBefore(k)
    IN /\ (e.op = "read" /\ j # 0 /\ fileLog[j].op = "write") =>
            /\ e.ok
            /\ loc[e.by].stream = [state |-> "read", content |-> htmlToDocx(req[fileLog[j].by].html.text)]
            /\ \A d \in remote : (d.kind = "document" /\ d.id = e.by) => d.content = htmlToDocx(req[fileLog[j].by].html.text)
       /\ (e.op = "read" /\ j # 0 /\ fileLog[j].op = "unlink") =>
            /\ ~e.ok
            /\ loc[e.by].stream.state = "ENOENT"
       /\ (e.op = "unlink" /\ j # 0 /\ fileLog[j].op = "unlink") =>
            /\ ~e.ok
            /\ thrown[e.by] = UnlinkError /\ res[e.by].status = 500

\* request r uploaded the DOCX of request s, then unlinked the file while the
\* upload of s was in flight, and the unlink of s found no file
C9_Witness ==
  \E r \in Reqs : \E s \in Reqs \ {r} :
    /\ req[r].html.text # req[s].html.text
    /\ \E d \in remote : d.kind = "document" /\ d.id = r /\ d.content = htmlToDocx(req[s].html.text)
    /\ \E i \in 1..Len(fileLog) : \E j \in 1..Len(fileLog) : \E k \in 1..Len(fileLog) : \E m \in 1..Len(fileLog) :
         /\ i < j /\ j < k /\ k < m
         /\ fileLog[i] = [op |-> "write", by |-> s, path |-> "temp.docx", ok |-> TRUE]
         /\ fileLog[j] = [op |-> "read", by |-> r, path |-> "temp.docx", ok |-> TRUE]
         /\ fileLog[k] = [op |-> "unlink", by |-> r, path |-> "temp.docx", ok |-> TRUE]
         /\ fileLog[m] = [op |-> "unlink", by |-> s, path |-> "temp.docx", ok |-> FALSE]
    /\ thrown[s] = UnlinkError /\ res[s].status = 500

\* C10: a failure after validation is answered 500 with the error's message;
\* from then on the request issues no external call, in particular none that
\* deletes what it created, and what was created remains.
C10_FailureIs500NoCleanup ==
  /\ [](\A r \in Reqs : thrown[r] # "" => (pc[r] = "responded" /\ res[r] = [status |-> 500, body |-> [error |-> thrown[r]]]))
  /\ [][\A r \in Reqs : (thrown'[r] # "" \/ pc[r] = "responded") => (calls'[r] = calls[r] /\ res'[r].status \in {res[r].status, 500})]_vars
  /\ [][remote \subseteq remote']_vars

\* the populating batch of a created presentation failed: 500, the presentation
\* is still there and no call followed the failed one
C10_Witness ==
  \E r \in Reqs :
    /\ thrown[r] = "slides.presentations.batchUpdate"
    /\ res[r] = [status |-> 500, body |-> [error |-> "slides.presentations.batchUpdate"]]
    /\ [kind |-> "presentation", id |-> r] \in remote
    /\ Len(calls[r]) = 4

\* the Slides API methods of one slide request, in the order of the handler
SlideCallOrder == <<"slides.presentations.create", "slides.presentations.get", "slides.presentations.batchUpdate", "slides.presentations.batchUpdate">>

\* the awaits of one slide request, in the order of the handler
SlideAwaitOrder == <<"slides.presentations.create", "slides.presentations.get", "slides.presentations.batchUpdate (delete default)", "slides.presentations.batchUpdate">>

SlideRequest(r) == req[r].endpoint \in SlideEndpoints

\* the calls of r so far are the first calls of the order, the call r awaits is
\* the last one issued, the third call deletes the default slide only and the
\* fourth creates every slide
CallsInOrder(r) ==
  /\ Len(calls[r]) <= 4
  /\ \A k \in 1..Len(calls[r]) : calls[r][k].api = SlideCallOrder[k]
  /\ pc[r] \in Awaiting => (Len(calls[r]) > 0 /\ pc[r] = SlideAwaitOrder[Len(calls[r])])
  /\ Len(calls[r]) >= 3 => (Len(calls[r][3].args.requests) = 1 /\ calls[r][3].args.requests[1].kind = "deleteObject")
  /\ Len(calls[r]) = 4 => Len(SelectSeq(calls[r][4].args.requests, LAMBDA c : c.kind = "createSlide")) = Len(SegmenterOf(req[r].endpoint, req[r].html.body))

\* a step that issues a call issues one call, from the start of the handler or
\* from the await of the previous call, which has resolved and not rejected
OneCallAtATime(r) ==
  calls'[r] # calls[r] =>
    /\ Len(calls'[r]) = Len(calls[r]) + 1
    /\ SubSeq(calls'[r], 1, Len(calls[r])) = calls[r]
    /\ thrown[r] = "" /\ thrown'[r] = ""
    /\ pc[r] = (IF Len(calls[r]) = 0 THEN "received" ELSE SlideAwaitOrder[Len(calls[r])])
    /\ pc'[r] = SlideAwaitOrder[Len(calls'[r])]

\* the URL is sent by the step that resumes from the populating batch
UrlAfterLastCall(r) ==
  (res'[r].status = 200 /\ res[r].status # 200) =>
    /\ pc[r] = "slides.presentations.batchUpdate" /\ Len(calls[r]) = 4
    /\ calls'[r] = calls[r] /\ thrown'[r] = ""
    /\ res'[r].body = [url |-> <<"presentation", loc[r].presentationId>>]

\* C12: within one /create-slides or /create-slides-show request the Slides API
\* calls are issued one at a time in the order create presentation, read
\* presentation, delete default slide, one batched update with the commands of
\* all slides; each is issued only after the previous one has resolved, and the
\* response with the presentation URL is sent only after the batched update
\* has resolved.
C12_SequentialSlideCalls ==
  /\ [](\A r \in Reqs : SlideRequest(r) => CallsInOrder(r))
  /\ [](\A r \in Reqs : (SlideRequest(r) /\ res[r].status = 200) => (Len(calls[r]) = 4 /\ pc[r] = "responded" /\ thrown[r] = ""))
  /\ [][\A r \in Reqs : SlideRequest(r) => (OneCallAtATime(r) /\ UrlAfterLastCall(r))]_vars

\* a request for three slides answered with the URL after its four calls
C12_Witness ==
  \E r \in Reqs :
    /\ req[r].endpoint = "/create-slides" /\ res[r].status = 200
    /\ res[r].body = [url |-> <<"presentation", r>>]
    /\ [k \in 1..Len(calls[r]) |-> calls[r][k].api] = SlideCallOrder
    /\ Len(loc[r].slidesData) = 3 /\ Len(calls[r][4].args.requests) = 33

====
